---- MODULE Spec2Model ----
\* Bounding-volume hierarchy of RealtimeRaytracing: BVHBuilder::build,
\* BVHBuilder::refit (src/src/rt_bvh.h) and the caller's triangle array.
\*
\* Numbers.  Vertex coordinates are even integers, so every float the builder
\* computes from them (box corners, box centers, surface areas, bucket
\* indices, cost comparisons) is exact and is modelled by integer arithmetic.
\* Indices stored in the data (child indices, primitive offsets, triangle
\* indices) keep the source's 0-based values; At(s, i) reads s[i] of the source.
EXTENDS Integers, Sequences, FiniteSets, TLC

\* ---------------------------------------------------------------- bounds
MaxTris == 5
MaxEdits == 2

\* ------------------------------------------------------ program constants
FLT_MAX == 100000
MAX_PRIMS_IN_LEAF == 4
numBuckets == 12

Axes == 1..3

At(s, i) == s[i + 1]

Min2(a, b) == IF a < b THEN a ELSE b
Max2(a, b) == IF a < b THEN b ELSE a

\* glm::min / glm::max on vec3
VMin(a, b) == <<Min2(a[1], b[1]), Min2(a[2], b[2]), Min2(a[3], b[3])>>
VMax(a, b) == <<Max2(a[1], b[1]), Max2(a[2], b[2]), Max2(a[3], b[3])>>

\* ---------------------------------------------------------------- inputs
Tri(a, b, c) == [v0 |-> a, v1 |-> b, v2 |-> c]

\* Vertex positions a triangle can take: two large overlapping triangles and
\* a thin one that sticks out of both in z.
Positions ==
  << Tri(<<0, 0, 0>>, <<10, 10, 0>>, <<0, 10, 10>>),
     Tri(<<0, 0, 0>>, <<12, 10, 0>>, <<0, 10, 10>>),
     Tri(<<4, 0, 0>>, <<6, 0, 0>>, <<4, 0, 12>>) >>

TrianglePool == {Positions[k] : k \in 1..Len(Positions)}

\* the positions a triangle is moved to by one edit
Moved(t) ==
  LET k == CHOOSE j \in 1..Len(Positions) : Positions[j] = t
  IN  Positions[(k % Len(Positions)) + 1]

\* The caller's array is shared by two mesh instances; instance 0 owns the
\* slice [0, n div 2) and instance 1 the slice [n div 2, n), 0-based.
Instances == {0, 1}
firstTri(inst, n) == IF inst = 0 THEN 0 ELSE n \div 2
triCount(inst, n) == IF inst = 0 THEN n \div 2 ELSE n - n \div 2

TriangleLists == UNION { [1..n -> TrianglePool] : n \in 0..MaxTris }

\* ------------------------------------------------------------------ AABB
EmptyAABB ==
  [min |-> <<FLT_MAX, FLT_MAX, FLT_MAX>>,
   max |-> <<-FLT_MAX, -FLT_MAX, -FLT_MAX>>]

expandPoint(box, point) ==
  [min |-> VMin(box.min, point), max |-> VMax(box.max, point)]

\* faulty variant: expand(other) takes over the corners of other
expandBoxOverwrite(box, other) ==
  [min |-> other.min, max |-> other.max]

expandBox(box, other) ==
  [min |-> VMin(box.min, other.min), max |-> VMax(box.max, other.max)]

surfaceArea(box) ==
  LET d == <<box.max[1] - box.min[1], box.max[2] - box.min[2], box.max[3] - box.min[3]>>
  IN  2 * (d[1] * d[2] + d[2] * d[3] + d[1] * d[3])

\* (min + max) * 0.5f, exact on even coordinates
center(box) ==
  <<(box.min[1] + box.max[1]) \div 2,
    (box.min[2] + box.max[2]) \div 2,
    (box.min[3] + box.max[3]) \div 2>>

\* faulty variant: the third vertex is left out of the box
getTriangleBoundsTwoVertices(tri) ==
  expandPoint(expandPoint(EmptyAABB, tri.v0), tri.v1)

getTriangleBounds(tri) ==
  expandPoint(expandPoint(expandPoint(EmptyAABB, tri.v0), tri.v1), tri.v2)

\* faulty variant: the loop leaves out the last descriptor of the range
RECURSIVE rangeBoundsShort(_, _, _)
rangeBoundsShort(prims, lo, hi) ==
  IF lo >= hi - 1 THEN EmptyAABB
  ELSE expandBox(rangeBoundsShort(prims, lo, hi - 1), At(prims, hi - 2).bounds)

\* union of the boxes of a sequence of records with a bounds field,
\* over the 0-based positions lo .. hi-1
RECURSIVE rangeBounds(_, _, _)
rangeBounds(prims, lo, hi) ==
  IF lo >= hi THEN EmptyAABB
  ELSE expandBox(rangeBounds(prims, lo, hi - 1), At(prims, hi - 1).bounds)

\* ------------------------------------------------- primitive descriptors
\* build, lines 62-65: one PrimInfo per triangle; the centroid stored is the
\* center of the triangle's box
makePrimInfo(tris) ==
  [i \in 1..Len(tris) |->
     LET bounds == getTriangleBounds(tris[i])
     IN  [bounds |-> bounds, centroid |-> center(bounds), primitiveIndex |-> i - 1]]

Swap(s, i, j) == [s EXCEPT ![i + 1] = At(s, j), ![j + 1] = At(s, i)]

\* std::partition on [first, last) with the predicate of lines 287-289,
\* p.centroid[dim] < splitCentroid, where splitCentroid = thr12 / numBuckets:
\* the two-pointer exchange of the bidirectional algorithm
belowSplit(p, dim, thr12) == numBuckets * p.centroid[dim + 1] < thr12

RECURSIVE stdPartition(_, _, _, _, _)
stdPartition(s, first, last, dim, thr12) ==
  LET stops == {i \in first..last : i = last \/ ~belowSplit(At(s, i), dim, thr12)}
      f == CHOOSE i \in stops : \A j \in stops : i <= j
  IN  IF f = last THEN [prims |-> s, pos |-> f]
      ELSE LET backs == {i \in f..(last - 1) : i = f \/ belowSplit(At(s, i), dim, thr12)}
               l == CHOOSE i \in backs : \A j \in backs : j <= i
           IN  IF l = f THEN [prims |-> s, pos |-> f]
               ELSE stdPartition(Swap(s, f, l), f + 1, l, dim, thr12)

\* std::nth_element on [first, last) with the comparison of lines 174-176.
\* On ranges of this size the library orders the whole range by insertion
\* sort, which keeps the order of elements with equal keys.
RECURSIVE insertInto(_, _, _, _)
insertInto(s, first, i, dim) ==
  IF i > first /\ At(s, i).centroid[dim + 1] < At(s, i - 1).centroid[dim + 1]
  THEN insertInto(Swap(s, i - 1, i), first, i - 1, dim)
  ELSE s

RECURSIVE insertionSort(_, _, _, _, _)
insertionSort(s, first, i, last, dim) ==
  IF i >= last THEN s
  ELSE insertionSort(insertInto(s, first, i, dim), first, i + 1, last, dim)

\* faulty variant: the comparator is reversed (a > b), so the range ends up
\* in descending order
nthElementReversed(s, first, nth, last, dim) ==
  IF nth = last THEN s
  ELSE LET sorted == insertionSort(s, first, first + 1, last, dim)
       IN  [i \in 1..Len(s) |->
              IF first + 1 <= i /\ i <= last THEN sorted[first + 1 + last - i]
              ELSE sorted[i]]

nthElement(s, first, nth, last, dim) ==
  IF nth = last THEN s ELSE insertionSort(s, first, first + 1, last, dim)

\* --------------------------------------------------------------- SAH cost
\* a float cost: a finite quotient num/den (den > 0), or NaN, or +infinity
Finite(n, d) == [kind |-> "num", num |-> n, den |-> d]
CostMax == Finite(FLT_MAX, 1)

\* faulty variant: a candidate also replaces the best one at equal cost
\* (cost <= bestCost)
costLessOrEqual(a, b) ==
  /\ a.kind = "num"
  /\ \/ b.kind = "inf"
     \/ b.kind = "num" /\ a.num * b.den <= b.num * a.den

\* a < b on floats
costLess(a, b) ==
  /\ a.kind = "num"
  /\ \/ b.kind = "inf"
     \/ b.kind = "num" /\ a.num * b.den < b.num * a.den

\* a >= n on floats, n an int
\* faulty variant: the comparison is turned round (splitCost <= numPrims)
costAtMost(a, n) == a.kind = "num" /\ a.num <= n * a.den

\* faulty variant: the FLT_MAX returned when there is no candidate is not
\* taken for a cost
costAtLeastFound(a, n) ==
  a.kind = "num" /\ a.num >= n * a.den /\ a.num < FLT_MAX * a.den

costAtLeast(a, n) ==
  \/ a.kind = "inf"
  \/ a.kind = "num" /\ a.num >= n * a.den

\* lines 271-275: 0.125f + 1.0f * (lc * SA(left) + rc * SA(right)) / SA(bounds)
sahCost(leftCount, leftBounds, rightCount, rightBounds, bounds) ==
  LET n == leftCount * surfaceArea(leftBounds) + rightCount * surfaceArea(rightBounds)
      s == surfaceArea(bounds)
  IN  IF s = 0 THEN (IF n = 0 THEN [kind |-> "nan", num |-> 0, den |-> 1]
                     ELSE [kind |-> "inf", num |-> 0, den |-> 1])
      ELSE Finite(s + 8 * n, 8 * s)

\* ---------------------------------------------------------- findBestSplit
SetMin(S) == CHOOSE x \in S : \A y \in S : x <= y
SetMax(S) == CHOOSE x \in S : \A y \in S : y <= x

\* lines 225-231
minCentroidOf(prims, start, end, dim) ==
  SetMin({FLT_MAX} \cup {At(prims, i).centroid[dim + 1] : i \in start..(end - 1)})
maxCentroidOf(prims, start, end, dim) ==
  SetMax({-FLT_MAX} \cup {At(prims, i).centroid[dim + 1] : i \in start..(end - 1)})

\* lines 244-245
bucketIndexOf(c, minCentroid, maxCentroid) ==
  Min2(numBuckets - 1, (numBuckets * (c - minCentroid)) \div (maxCentroid - minCentroid))

\* lines 240-248
RECURSIVE fillBuckets(_, _, _, _, _, _, _)
fillBuckets(buckets, prims, i, end, dim, minCentroid, maxCentroid) ==
  IF i >= end THEN buckets
  ELSE LET b == bucketIndexOf(At(prims, i).centroid[dim + 1], minCentroid, maxCentroid)
           nb == [count |-> buckets[b].count + 1,
                  bounds |-> expandBox(buckets[b].bounds, At(prims, i).bounds)]
       IN  fillBuckets([buckets EXCEPT ![b] = nb], prims, i + 1, end, dim,
                       minCentroid, maxCentroid)

EmptyBuckets == [b \in 0..(numBuckets - 1) |-> [count |-> 0, bounds |-> EmptyAABB]]

\* lines 256-265: box and count of the buckets lo .. hi-1
RECURSIVE sideOf(_, _, _)
sideOf(buckets, lo, hi) ==
  IF lo >= hi THEN [count |-> 0, bounds |-> EmptyAABB]
  ELSE LET rest == sideOf(buckets, lo, hi - 1)
       IN  [count |-> rest.count + buckets[hi - 1].count,
            bounds |-> expandBox(rest.bounds, buckets[hi - 1].bounds)]

\* lines 282: numBuckets * splitCentroid
splitCentroid12(minCentroid, maxCentroid, splitBucket) ==
  numBuckets * minCentroid + (maxCentroid - minCentroid) * splitBucket

\* lines 251-295: the candidates splitBucket .. numBuckets-1 of one axis;
\* st holds bestCost, bestDim, bestPos, the descriptor table and, for the
\* record, numBuckets times the splitCentroid of the candidate that set them
RECURSIVE trySplits(_, _, _, _, _, _, _, _, _)
trySplits(st, start, end, bounds, dim, minCentroid, maxCentroid, buckets, splitBucket) ==
  IF splitBucket >= numBuckets THEN st
  ELSE
    LET left == sideOf(buckets, 0, splitBucket)
        right == sideOf(buckets, splitBucket, numBuckets)
        cost == sahCost(left.count, left.bounds, right.count, right.bounds, bounds)
        part == stdPartition(st.prims, start, end, dim,
                             splitCentroid12(minCentroid, maxCentroid, splitBucket))
        st2 == IF left.count = 0 \/ right.count = 0 THEN st
               ELSE IF costLess(cost, st.cost)
                    THEN [cost |-> cost, dim |-> dim,
                          pos |-> Max2(start + 1, Min2(end - 1, part.pos)),
                          prims |-> part.prims,
                          threshold12 |-> splitCentroid12(minCentroid, maxCentroid,
                                                          splitBucket)]
                    ELSE st
    IN  trySplits(st2, start, end, bounds, dim, minCentroid, maxCentroid,
                  buckets, splitBucket + 1)

\* lines 223-296: the axes dim .. 2
RECURSIVE tryDims(_, _, _, _, _)
tryDims(st, start, end, bounds, dim) ==
  IF dim >= 3 THEN st
  ELSE
    LET minCentroid == minCentroidOf(st.prims, start, end, dim)
        maxCentroid == maxCentroidOf(st.prims, start, end, dim)
        buckets == fillBuckets(EmptyBuckets, st.prims, start, end, dim,
                               minCentroid, maxCentroid)
        st2 == IF minCentroid = maxCentroid THEN st
               ELSE trySplits(st, start, end, bounds, dim, minCentroid,
                              maxCentroid, buckets, 1)
    IN  tryDims(st2, start, end, bounds, dim + 1)

\* faulty variant: bestCost starts at 0 instead of FLT_MAX
findBestSplitFromZero(prims, start, end, bounds) ==
  [cost |-> Finite(0, 1), dim |-> 0, pos |-> (start + end) \div 2, prims |-> prims,
   threshold12 |-> 0]

\* faulty variant: bestPos is counted from the start of the range and is
\* not clamped into it
findBestSplitRelative(prims, start, end, bounds) ==
  LET r == tryDims([cost |-> CostMax, dim |-> 0, pos |-> (start + end) \div 2,
                    prims |-> prims, threshold12 |-> 0],
                   start, end, bounds, 0)
  IN  [r EXCEPT !.pos = r.pos - start]

findBestSplit(prims, start, end, bounds) ==
  tryDims([cost |-> CostMax, dim |-> 0, pos |-> (start + end) \div 2, prims |-> prims,
           threshold12 |-> 0],
          start, end, bounds, 0)

\* ------------------------------------------------------------ createLeaf
\* lines 194-212, on the node array and the primitive-index array
\* faulty variant: the loop stops one short of end
RECURSIVE appendRefsShort(_, _, _, _)
appendRefsShort(indices, prims, i, end) ==
  IF i >= end - 1 THEN indices
  ELSE appendRefsShort(Append(indices, At(prims, i).primitiveIndex), prims, i + 1, end)

RECURSIVE appendRefs(_, _, _, _)
appendRefs(indices, prims, i, end) ==
  IF i >= end THEN indices
  ELSE appendRefs(Append(indices, At(prims, i).primitiveIndex), prims, i + 1, end)

\* faulty variant: the offset is negated without the + 1
leafLeftChildNoBias(primitiveOffset) == -primitiveOffset

leafLeftChild(primitiveOffset) == -(primitiveOffset + 1)

\* faulty variant: the count stored is end, not end - start
createLeafCountEnd(ns, indices, nodeIndex, bounds, prims, start, end) ==
  LET primitiveOffset == Len(indices)
      node == [min |-> bounds.min, max |-> bounds.max,
               leftChild |-> -(primitiveOffset + 1),
               rightChild |-> end]
  IN  [nodes |-> [ns EXCEPT ![nodeIndex + 1] = node],
       primitiveIndices |-> appendRefs(indices, prims, start, end)]

\* faulty variant: the leaf empties primitiveIndices before it appends
createLeafClearing(ns, indices, nodeIndex, bounds, prims, start, end) ==
  LET node == [min |-> bounds.min, max |-> bounds.max,
               leftChild |-> leafLeftChild(0),
               rightChild |-> end - start]
  IN  [nodes |-> [ns EXCEPT ![nodeIndex + 1] = node],
       primitiveIndices |-> appendRefs(<< >>, prims, start, end)]

\* faulty variant: the offset is read after the indices were appended
createLeafOffsetAfter(ns, indices, nodeIndex, bounds, prims, start, end) ==
  LET primitiveOffset == Len(indices) + (end - start)
      node == [min |-> bounds.min, max |-> bounds.max,
               leftChild |-> leafLeftChild(primitiveOffset),
               rightChild |-> end - start]
  IN  [nodes |-> [ns EXCEPT ![nodeIndex + 1] = node],
       primitiveIndices |-> appendRefs(indices, prims, start, end)]

createLeaf(ns, indices, nodeIndex, bounds, prims, start, end) ==
  LET primitiveOffset == Len(indices)
      node == [min |-> bounds.min, max |-> bounds.max,
               leftChild |-> leafLeftChild(primitiveOffset),
               rightChild |-> end - start]
  IN  [nodes |-> [ns EXCEPT ![nodeIndex + 1] = node],
       primitiveIndices |-> appendRefs(indices, prims, start, end)]

\* ----------------------------------------------------------------- refit
\* lines 101-114: the box of a leaf run, from the current triangles
\* faulty variant: the run position is used as the triangle index
RECURSIVE leafBoundsDirect(_, _, _, _, _)
leafBoundsDirect(indices, tris, primOffset, i, primCount) ==
  IF i >= primCount THEN EmptyAABB
  ELSE LET rest == leafBoundsDirect(indices, tris, primOffset, i + 1, primCount)
           t == At(tris, primOffset + i)
           tb == expandPoint(expandPoint(expandPoint(EmptyAABB, t.v0), t.v1), t.v2)
       IN  expandBox(rest, tb)

RECURSIVE leafBounds(_, _, _, _, _)
leafBounds(indices, tris, primOffset, i, primCount) ==
  IF i >= primCount THEN EmptyAABB
  ELSE LET rest == leafBounds(indices, tris, primOffset, i + 1, primCount)
           triIdx == At(indices, primOffset + i)
           t == At(tris, triIdx)
           tb == expandPoint(expandPoint(expandPoint(EmptyAABB, t.v0), t.v1), t.v2)
       IN  expandBox(rest, tb)

\* faulty variant: the right child's box is not merged
combineChildrenLeftOnly(leftB, rightB) == leftB

\* lines 126-127
combineChildren(leftB, rightB) == expandBox(leftB, rightB)

\* faulty variant: a leaf's node is rewritten whole, which resets its count
RECURSIVE refitNodeRewrite(_, _, _, _)
refitNodeRewrite(ns, indices, nodeIdx, tris) ==
  LET node == At(ns, nodeIdx)
  IN  IF node.leftChild < 0
      THEN LET bounds == leafBounds(indices, tris, -node.leftChild - 1, 0, node.rightChild)
           IN  [nodes |-> [ns EXCEPT ![nodeIdx + 1] =
                             [min |-> bounds.min, max |-> bounds.max,
                              leftChild |-> node.leftChild, rightChild |-> 0]],
                bounds |-> bounds]
      ELSE LET l == refitNodeRewrite(ns, indices, node.leftChild, tris)
               r == refitNodeRewrite(l.nodes, indices, node.rightChild, tris)
               b == combineChildren(l.bounds, r.bounds)
           IN  [nodes |-> [r.nodes EXCEPT ![nodeIdx + 1].min = b.min,
                                          ![nodeIdx + 1].max = b.max],
                bounds |-> b]

\* faulty variant: an internal node merges the boxes its children held before the call
RECURSIVE refitNodeStale(_, _, _, _)
refitNodeStale(ns, indices, nodeIdx, tris) ==
  LET node == At(ns, nodeIdx)
  IN  IF node.leftChild < 0
      THEN LET bounds == leafBounds(indices, tris, -node.leftChild - 1, 0, node.rightChild)
           IN  [nodes |-> [ns EXCEPT ![nodeIdx + 1].min = bounds.min,
                                     ![nodeIdx + 1].max = bounds.max],
                bounds |-> bounds]
      ELSE LET l == refitNodeStale(ns, indices, node.leftChild, tris)
               r == refitNodeStale(l.nodes, indices, node.rightChild, tris)
               b == expandBox([min |-> At(ns, node.leftChild).min,
                               max |-> At(ns, node.leftChild).max],
                              [min |-> At(ns, node.rightChild).min,
                               max |-> At(ns, node.rightChild).max])
           IN  [nodes |-> [r.nodes EXCEPT ![nodeIdx + 1].min = b.min,
                                          ![nodeIdx + 1].max = b.max],
                bounds |-> b]

\* lines 94-132: returns the node array after the call and the box returned
RECURSIVE refitNode(_, _, _, _)
refitNode(ns, indices, nodeIdx, tris) ==
  LET node == At(ns, nodeIdx)
  IN  IF node.leftChild < 0
      THEN LET bounds == leafBounds(indices, tris, -node.leftChild - 1, 0, node.rightChild)
           IN  [nodes |-> [ns EXCEPT ![nodeIdx + 1].min = bounds.min,
                                     ![nodeIdx + 1].max = bounds.max],
                bounds |-> bounds]
      ELSE LET l == refitNode(ns, indices, node.leftChild, tris)
               r == refitNode(l.nodes, indices, node.rightChild, tris)
               b == combineChildren(l.bounds, r.bounds)
           IN  [nodes |-> [r.nodes EXCEPT ![nodeIdx + 1].min = b.min,
                                          ![nodeIdx + 1].max = b.max],
                bounds |-> b]

\* lines 80-83
refit(ns, indices, tris) ==
  IF ns = << >> THEN ns ELSE refitNode(ns, indices, 0, tris).nodes

\* ------------------------------------------------------------------ state
VARIABLES
  triangles,         \* the caller's triangle array
  nodes,             \* BVHBuilder::nodes
  primitiveIndices,  \* BVHBuilder::primitiveIndices
  primInfo,          \* build's descriptor table
  stack,             \* activations of buildRecursive, innermost last
  pc,                \* "idle", or "build" while build is running
  lastOp,            \* the last operation called: "build" ("rebuild" when a
                     \* hierarchy was held at the call), "refit" or "edit"
  builtCount,        \* triangles.size() of the last build call
  edits,             \* number of vertex edits since the last build
  instances,         \* main's std::vector<MeshInstance> instances(2)
  meshParams,        \* main's meshPositions, meshRotations, meshScales
  gpu,               \* contents of triSSBO and bvhSSBO
  appPc,             \* main's position: [at |-> ..., i |-> loop index]
  aabb,              \* two AABB objects, "a" and "b"
  aabbLog            \* what was called on them: [expanded, last]

\* the variables of main
appVars == <<instances, meshParams, gpu, appPc>>

\* the variables of the AABB objects taken on their own
aabbVars == <<aabb, aabbLog>>

vars == <<triangles, nodes, primitiveIndices, primInfo, stack, pc, lastOp,
          builtCount, edits, instances, meshParams, gpu, appPc, aabb, aabbLog>>

\* no AABB object is looked at on its own
NoAabb ==
  /\ aabb = << >>
  /\ aabbLog = << >>

\* the builder used on its own: main's variables are not in play
NoApp ==
  /\ instances = << >>
  /\ meshParams = << >>
  /\ gpu = [tris |-> << >>, nodes |-> << >>]
  /\ appPc = [at |-> "none", i |-> 0]

\* nodes.emplace_back(): a value-initialised BVHNode
Placeholder ==
  [min |-> <<0, 0, 0>>, max |-> <<0, 0, 0>>, leftChild |-> 0, rightChild |-> 0]

Frame(s, e) ==
  [pc |-> "enter", start |-> s, end |-> e, nodeIndex |-> -1,
   bounds |-> EmptyAABB, splitDim |-> 0, splitPos |-> 0,
   splitCost |-> CostMax, threshold12 |-> 0,
   leftChild |-> -1, rightChild |-> -1]

Init ==
  /\ triangles \in TriangleLists
  /\ nodes = << >>
  /\ primitiveIndices = << >>
  /\ primInfo = << >>
  /\ stack = << >>
  /\ pc = "idle"
  /\ lastOp = "none"
  /\ builtCount = 0
  /\ edits = 0
  /\ NoApp
  /\ NoAabb

\* ---------------------------------------------------------------- build
Top == stack[Len(stack)]
SetTop(f) == [stack EXCEPT ![Len(stack)] = f]

\* faulty variant: the empty check comes before the two clear() calls
BuildCallCheckFirst(T) ==
  /\ pc = "idle"
  /\ IF T = << >>
     THEN /\ UNCHANGED <<nodes, primitiveIndices>>
          /\ primInfo' = << >>
          /\ stack' = << >>
          /\ pc' = "idle"
     ELSE /\ nodes' = << >>
          /\ primitiveIndices' = << >>
          /\ primInfo' = makePrimInfo(T)
          /\ stack' = << Frame(0, Len(T)) >>
          /\ pc' = "build"
  /\ lastOp' = IF nodes = << >> THEN "build" ELSE "rebuild"
  /\ builtCount' = Len(T)
  /\ edits' = 0
  /\ UNCHANGED triangles

\* faulty variant: the two arrays are cleared only for an empty input
BuildCallAppend(T) ==
  /\ pc = "idle"
  /\ IF T = << >>
     THEN /\ nodes' = << >>
          /\ primitiveIndices' = << >>
          /\ primInfo' = << >>
          /\ stack' = << >>
          /\ pc' = "idle"
     ELSE /\ UNCHANGED <<nodes, primitiveIndices>>
          /\ primInfo' = makePrimInfo(T)
          /\ stack' = << Frame(0, Len(T)) >>
          /\ pc' = "build"
  /\ lastOp' = IF nodes = << >> THEN "build" ELSE "rebuild"
  /\ builtCount' = Len(T)
  /\ edits' = 0
  /\ UNCHANGED triangles

\* build, lines 47-70, up to the call of buildRecursive
BuildCall(T) ==
  /\ pc = "idle"
  /\ nodes' = << >>
  /\ primitiveIndices' = << >>
  /\ IF T = << >>
     THEN /\ primInfo' = << >>
          /\ stack' = << >>
          /\ pc' = "idle"
     ELSE /\ primInfo' = makePrimInfo(T)
          /\ stack' = << Frame(0, Len(T)) >>
          /\ pc' = "build"
  /\ lastOp' = IF nodes = << >> THEN "build" ELSE "rebuild"
  /\ builtCount' = Len(T)
  /\ edits' = 0
  /\ UNCHANGED triangles

\* the return of buildRecursive with value r: to the activation that called
\* it (lines 180, 181), or to build (line 70), which then returns
Return(stk, r) ==
  LET rest == SubSeq(stk, 1, Len(stk) - 1)
  IN  IF rest = << >> THEN rest
      ELSE LET caller == rest[Len(rest)]
               resumed == IF caller.pc = "left"
                          THEN [caller EXCEPT !.leftChild = r, !.pc = "callRight"]
                          ELSE [caller EXCEPT !.rightChild = r, !.pc = "finish"]
           IN  [rest EXCEPT ![Len(rest)] = resumed]

Returning(r) ==
  /\ stack' = Return(stack, r)
  /\ IF Len(stack) = 1
     THEN pc' = "idle" /\ primInfo' = << >>
     ELSE pc' = "build" /\ primInfo' = primInfo

\* faulty variant: two placeholders are appended on entry
AllocNodeTwice ==
  /\ pc = "build"
  /\ Top.pc = "enter"
  /\ nodes' = Append(Append(nodes, Placeholder), Placeholder)
  /\ stack' = SetTop([Top EXCEPT !.nodeIndex = Len(nodes),
                                 !.bounds = rangeBounds(primInfo, Top.start, Top.end),
                                 !.pc = "decide"])
  /\ UNCHANGED <<triangles, primitiveIndices, primInfo, pc, lastOp, builtCount, edits>>

\* buildRecursive, lines 143-152
AllocNode ==
  /\ pc = "build"
  /\ Top.pc = "enter"
  /\ nodes' = Append(nodes, Placeholder)
  /\ stack' = SetTop([Top EXCEPT !.nodeIndex = Len(nodes),
                                 !.bounds = rangeBounds(primInfo, Top.start, Top.end),
                                 !.pc = "decide"])
  /\ UNCHANGED <<triangles, primitiveIndices, primInfo, pc, lastOp, builtCount, edits>>

\* faulty variant: the comparison is strict
fitsLeafStrict(numPrims) == numPrims < MAX_PRIMS_IN_LEAF

\* line 154
fitsLeaf(numPrims) == numPrims <= MAX_PRIMS_IN_LEAF

\* buildRecursive, lines 154-157
SmallLeaf ==
  /\ pc = "build"
  /\ Top.pc = "decide"
  /\ fitsLeaf(Top.end - Top.start)
  /\ LET leaf == createLeaf(nodes, primitiveIndices, Top.nodeIndex, Top.bounds,
                            primInfo, Top.start, Top.end)
     IN  /\ nodes' = leaf.nodes
         /\ primitiveIndices' = leaf.primitiveIndices
  /\ Returning(Top.nodeIndex)
  /\ UNCHANGED <<triangles, lastOp, builtCount, edits>>

\* buildRecursive, lines 160-162
SplitSearch ==
  /\ pc = "build"
  /\ Top.pc = "decide"
  /\ ~fitsLeaf(Top.end - Top.start)
  /\ LET best == findBestSplit(primInfo, Top.start, Top.end, Top.bounds)
     IN  /\ primInfo' = best.prims
         /\ stack' = SetTop([Top EXCEPT !.splitDim = best.dim, !.splitPos = best.pos,
                                        !.splitCost = best.cost,
                                        !.threshold12 = best.threshold12,
                                        !.pc = "cost"])
  /\ UNCHANGED <<triangles, nodes, primitiveIndices, pc, lastOp, builtCount, edits>>

\* buildRecursive, lines 165-168
CostLeaf ==
  /\ pc = "build"
  /\ Top.pc = "cost"
  /\ costAtLeast(Top.splitCost, Top.end - Top.start)
  /\ LET leaf == createLeaf(nodes, primitiveIndices, Top.nodeIndex, Top.bounds,
                            primInfo, Top.start, Top.end)
     IN  /\ nodes' = leaf.nodes
         /\ primitiveIndices' = leaf.primitiveIndices
  /\ Returning(Top.nodeIndex)
  /\ UNCHANGED <<triangles, lastOp, builtCount, edits>>

\* buildRecursive, lines 171-180: nth_element, then the call for the left range
PartitionLeft ==
  /\ pc = "build"
  /\ Top.pc = "cost"
  /\ ~costAtLeast(Top.splitCost, Top.end - Top.start)
  /\ primInfo' = nthElement(primInfo, Top.start, Top.splitPos, Top.end, Top.splitDim)
  /\ stack' = Append(SetTop([Top EXCEPT !.pc = "left"]), Frame(Top.start, Top.splitPos))
  /\ UNCHANGED <<triangles, nodes, primitiveIndices, pc, lastOp, builtCount, edits>>

\* buildRecursive, line 181: the call for the right range
RecurseRight ==
  /\ pc = "build"
  /\ Top.pc = "callRight"
  /\ stack' = Append(SetTop([Top EXCEPT !.pc = "right"]), Frame(Top.splitPos, Top.end))
  /\ UNCHANGED <<triangles, nodes, primitiveIndices, primInfo, pc, lastOp, builtCount, edits>>

\* faulty variant: the left child's index is stored in both fields
internalNodeLeftTwice(bounds, leftChild, rightChild) ==
  [min |-> bounds.min, max |-> bounds.max,
   leftChild |-> leftChild, rightChild |-> leftChild]

\* faulty variant: the two child indices are stored the other way round
internalNodeSwapped(bounds, leftChild, rightChild) ==
  [min |-> bounds.min, max |-> bounds.max,
   leftChild |-> rightChild, rightChild |-> leftChild]

\* lines 184-188: the fields an internal node is given
internalNode(bounds, leftChild, rightChild) ==
  [min |-> bounds.min, max |-> bounds.max,
   leftChild |-> leftChild, rightChild |-> rightChild]

\* buildRecursive, lines 184-191
FinishNode ==
  /\ pc = "build"
  /\ Top.pc = "finish"
  /\ nodes' = [nodes EXCEPT ![Top.nodeIndex + 1] =
                 internalNode(Top.bounds, Top.leftChild, Top.rightChild)]
  /\ Returning(Top.nodeIndex)
  /\ UNCHANGED <<triangles, primitiveIndices, lastOp, builtCount, edits>>

\* --------------------------------------------------------------- caller
\* refit, lines 80-83, on the caller's array
RefitCall ==
  /\ pc = "idle"
  /\ nodes' = refit(nodes, primitiveIndices, triangles)
  /\ lastOp' = "refit"
  /\ UNCHANGED <<triangles, primitiveIndices, primInfo, stack, pc, builtCount, edits>>

\* a mesh edit by the caller: the triangles of one instance get new vertex
\* positions, written into the instance's slice; count and indices are kept
EditVertices(inst) ==
  /\ pc = "idle"
  /\ edits < MaxEdits
  /\ LET n == Len(triangles)
         first == firstTri(inst, n)
         slice == (first + 1)..(first + triCount(inst, n))
     IN  triangles' = [i \in 1..n |->
                         IF i \in slice THEN Moved(triangles[i]) ELSE triangles[i]]
  /\ edits' = edits + 1
  /\ lastOp' = "edit"
  /\ UNCHANGED <<nodes, primitiveIndices, primInfo, stack, pc, builtCount>>

Next ==
  \/ \E T \in {triangles, << >>} : BuildCall(T) /\ UNCHANGED appVars /\ UNCHANGED aabbVars
  \/ AllocNode /\ UNCHANGED appVars /\ UNCHANGED aabbVars
  \/ SmallLeaf /\ UNCHANGED appVars /\ UNCHANGED aabbVars
  \/ SplitSearch /\ UNCHANGED appVars /\ UNCHANGED aabbVars
  \/ CostLeaf /\ UNCHANGED appVars /\ UNCHANGED aabbVars
  \/ PartitionLeft /\ UNCHANGED appVars /\ UNCHANGED aabbVars
  \/ RecurseRight /\ UNCHANGED appVars /\ UNCHANGED aabbVars
  \/ FinishNode /\ UNCHANGED appVars /\ UNCHANGED aabbVars
  \/ RefitCall /\ UNCHANGED appVars /\ UNCHANGED aabbVars
  \/ \E inst \in Instances : EditVertices(inst) /\ UNCHANGED appVars /\ UNCHANGED aabbVars

Spec == Init /\ [][Next]_vars

\* ============================================================== properties
Vertices(t) == {t.v0, t.v1, t.v2}

Contains(box, v) == \A k \in Axes : box.min[k] <= v[k] /\ v[k] <= box.max[k]

NodeIds == 0..(Len(nodes) - 1)
Box(i) == [min |-> At(nodes, i).min, max |-> At(nodes, i).max]
IsLeaf(i) == At(nodes, i).leftChild < 0
LeafOffset(i) == -At(nodes, i).leftChild - 1
LeafCount(i) == At(nodes, i).rightChild
LeafRun(i) == LeafOffset(i)..(LeafOffset(i) + LeafCount(i) - 1)

\* build has returned from a call on a non-empty list, and nothing was called since
AfterBuild == pc = "idle" /\ lastOp \in {"build", "rebuild"} /\ builtCount > 0
\* the builder is at rest and its last build was given a non-empty list
Built == pc = "idle" /\ builtCount > 0

\* the step is a return of createLeaf for node i
LeafStep(i) ==
  /\ pc = "build"
  /\ Top.pc \in {"decide", "cost"}
  /\ Top.nodeIndex = i
  /\ Len(primitiveIndices') > Len(primitiveIndices)

\* C1: after build(T) on a non-empty T has returned, the box of node 0
\* contains the three vertices of every triangle of T.
C1_RootBoundsAll ==
  AfterBuild =>
    /\ nodes # << >>
    /\ \A i \in 1..Len(triangles) : \A v \in Vertices(triangles[i]) :
         Contains(Box(0), v)

C1_Witness ==
  /\ AfterBuild
  /\ Len(nodes) > 1
  /\ \E i, j \in 1..Len(triangles) :
       getTriangleBounds(triangles[i]) # getTriangleBounds(triangles[j])

\* C2: after build(T) with N triangles, primitiveIndices has exactly N entries,
\* every index 0..N-1 occurs at exactly one position, and that position lies
\* in the run of exactly one leaf.
C2_IndicesArePermutation ==
  Built =>
    /\ Len(primitiveIndices) = builtCount
    /\ \A k \in 0..(builtCount - 1) :
         /\ Cardinality({j \in 0..(Len(primitiveIndices) - 1) :
                           At(primitiveIndices, j) = k}) = 1
         /\ Cardinality({<<i, j>> \in NodeIds \X (0..(Len(primitiveIndices) - 1)) :
                           IsLeaf(i) /\ j \in LeafRun(i) /\ At(primitiveIndices, j) = k}) = 1

C2_Witness ==
  /\ Built
  /\ Len(nodes) > 1
  /\ \E j \in 0..(Len(primitiveIndices) - 1) : At(primitiveIndices, j) # j

\* C3: once build has returned (and after any refit), every node is either
\* internal, with both children valid node indices, or a leaf, with
\* leftChild < 0 and rightChild >= 1; no node has leftChild = 0; and at the
\* step that creates a leaf, -leftChild - 1 is the size primitiveIndices had
\* before the leaf's indices were appended.
C3_NodeShape ==
  pc = "idle" =>
    \A i \in NodeIds :
      LET n == At(nodes, i)
      IN  /\ n.leftChild # 0
          /\ \/ n.leftChild \in NodeIds /\ n.rightChild \in NodeIds
             \/ n.leftChild < 0 /\ n.rightChild >= 1

C3_LeafEncoding ==
  /\ [] C3_NodeShape
  /\ [][\A i \in NodeIds : LeafStep(i) =>
          /\ nodes'[i + 1].leftChild = -(Len(primitiveIndices) + 1)
          /\ -nodes'[i + 1].leftChild - 1 = Len(primitiveIndices)]_vars

C3_Witness ==
  /\ pc = "idle"
  /\ lastOp = "refit"
  /\ \E i, j \in NodeIds : ~IsLeaf(i) /\ IsLeaf(j) /\ LeafOffset(j) = 0

\* C4: whenever the builder is at rest, the box of every internal node is
\* exactly the component-wise union of the boxes of its two children.
C4_InternalBoxIsUnion ==
  pc = "idle" =>
    \A i \in NodeIds :
      ~IsLeaf(i) =>
        Box(i) = expandBox(Box(At(nodes, i).leftChild), Box(At(nodes, i).rightChild))

C4_Witness ==
  /\ pc = "idle"
  /\ lastOp = "refit"
  /\ edits > 0
  /\ \E i \in NodeIds :
       /\ ~IsLeaf(i)
       /\ Box(At(nodes, i).leftChild) # Box(i)
       /\ Box(At(nodes, i).rightChild) # Box(i)

\* C5: after build(T), the run of every leaf lies inside primitiveIndices and
\* the leaf's box contains every vertex of every triangle of its run; at the
\* step that creates a leaf, the count stored is the number of indices appended.
C5_LeafRunBounded ==
  AfterBuild =>
    \A i \in NodeIds :
      IsLeaf(i) =>
        /\ 0 <= LeafOffset(i)
        /\ LeafOffset(i) + LeafCount(i) <= Len(primitiveIndices)
        /\ \A k \in LeafRun(i) :
             \A v \in Vertices(At(triangles, At(primitiveIndices, k))) :
               Contains(Box(i), v)

C5_LeafRuns ==
  /\ [] C5_LeafRunBounded
  /\ [][\A i \in NodeIds : LeafStep(i) =>
          nodes'[i + 1].rightChild = Len(primitiveIndices') - Len(primitiveIndices)]_vars

C5_Witness ==
  /\ AfterBuild
  /\ \E i, j \in NodeIds :
       /\ IsLeaf(i) /\ IsLeaf(j) /\ LeafOffset(i) > 0
       /\ Box(i) # Box(j)
       /\ LeafCount(j) > 1

\* the tight box of a set of points
TightBox(S) ==
  [min |-> <<SetMin({FLT_MAX} \cup {v[1] : v \in S}),
             SetMin({FLT_MAX} \cup {v[2] : v \in S}),
             SetMin({FLT_MAX} \cup {v[3] : v \in S})>>,
   max |-> <<SetMax({-FLT_MAX} \cup {v[1] : v \in S}),
             SetMax({-FLT_MAX} \cup {v[2] : v \in S}),
             SetMax({-FLT_MAX} \cup {v[3] : v \in S})>>]

RunVertices(i) ==
  UNION {Vertices(At(triangles, At(primitiveIndices, k))) : k \in LeafRun(i)}

AfterRefit == pc = "idle" /\ lastOp = "refit" /\ builtCount > 0

\* C6: after a build and any rounds of vertex edits followed by refit, the box
\* of every leaf is the exact union of the current vertex positions of the
\* triangles of its run, and the box of node 0 contains every current vertex.
C6_RefitTracksGeometry ==
  AfterRefit =>
    /\ \A i \in NodeIds : IsLeaf(i) => Box(i) = TightBox(RunVertices(i))
    /\ \A t \in 1..Len(triangles) : \A v \in Vertices(triangles[t]) :
         Contains(Box(0), v)

C6_Witness ==
  /\ AfterRefit
  /\ edits > 1
  /\ \E i, j \in NodeIds :
       IsLeaf(i) /\ IsLeaf(j) /\ LeafCount(i) > 1 /\ Box(i) # Box(j)

\* C7: a refit call changes no field other than the min and max of nodes: the
\* number of nodes, every leftChild and rightChild, primitiveIndices and the
\* triangle array are as before the call.
C7_RefitFrame ==
  [][RefitCall =>
       /\ Len(nodes') = Len(nodes)
       /\ \A i \in NodeIds :
            /\ nodes'[i + 1].leftChild = nodes[i + 1].leftChild
            /\ nodes'[i + 1].rightChild = nodes[i + 1].rightChild
       /\ primitiveIndices' = primitiveIndices
       /\ triangles' = triangles]_vars

C7_Witness ==
  /\ AfterRefit
  /\ edits > 0
  /\ \E i \in NodeIds : ~IsLeaf(i) /\ Box(At(nodes, i).leftChild) # Box(At(nodes, i).rightChild)

\* C8: a second refit on the same triangle array right after a refit leaves
\* the min and max of every node as the first refit wrote them.
C8_RefitIdempotent ==
  (pc = "idle" /\ lastOp = "refit") =>
    refit(nodes, primitiveIndices, triangles) = nodes

C8_Witness ==
  /\ AfterRefit
  /\ edits = 1
  /\ Len(nodes) > 1
  /\ Box(0) # TightBox(UNION {Vertices(Positions[k]) : k \in 1..Len(Positions)})

\* C9: build on an empty list returns at once with nodes and primitiveIndices
\* empty, whatever they held before, and refit on an empty hierarchy changes
\* nothing.
C9_EmptyBuild ==
  /\ [][BuildCall(<< >>) =>
          pc' = "idle" /\ nodes' = << >> /\ primitiveIndices' = << >> /\ stack' = << >>]_vars
  /\ [][(RefitCall /\ nodes = << >>) =>
          pc' = "idle" /\ UNCHANGED <<nodes, primitiveIndices, triangles>>]_vars
  /\ [](pc = "idle" /\ builtCount = 0 => nodes = << >> /\ primitiveIndices = << >>)

C9_Witness ==
  /\ pc = "idle"
  /\ lastOp = "refit"
  /\ builtCount = 0
  /\ nodes = << >>
  /\ Len(triangles) > MAX_PRIMS_IN_LEAF

\* C10: for 1 to 4 triangles build produces exactly one node, a leaf with
\* leftChild = -1 and rightChild = N, primitiveIndices is 0, 1, .., N-1 in
\* order, and no activation of buildRecursive gets past the leaf test.
C10_SmallInputRootLeaf ==
  /\ (AfterBuild /\ builtCount <= 4) =>
       /\ Len(nodes) = 1
       /\ nodes[1].leftChild = -1
       /\ nodes[1].rightChild = builtCount
       /\ primitiveIndices = [k \in 1..builtCount |-> k - 1]
  /\ (pc = "build" /\ Len(primInfo) <= 4) =>
       /\ Len(stack) = 1
       /\ stack[1].pc \in {"enter", "decide"}

C10_Witness ==
  /\ AfterBuild
  /\ builtCount = 4
  /\ Len(nodes) = 1
  /\ \E i, j \in 1..Len(triangles) : triangles[i] # triangles[j]

\* ------------------------------------------------- coincident centroids
\* Triangles of different extent whose box centres all lie at (5, 5, 5).
CoincidentPositions ==
  << Tri(<<0, 0, 0>>, <<10, 10, 0>>, <<0, 10, 10>>),
     Tri(<<4, 5, -2>>, <<6, 5, -2>>, <<4, 5, 12>>),
     Tri(<<2, 2, 2>>, <<8, 8, 2>>, <<2, 8, 8>>) >>

CoincidentLists ==
  UNION { [1..n -> {CoincidentPositions[k] : k \in 1..Len(CoincidentPositions)}] :
            n \in 0..MaxTris }

CoincidentInit ==
  /\ triangles \in CoincidentLists
  /\ nodes = << >>
  /\ primitiveIndices = << >>
  /\ primInfo = << >>
  /\ stack = << >>
  /\ pc = "idle"
  /\ lastOp = "none"
  /\ builtCount = 0
  /\ edits = 0
  /\ NoApp
  /\ NoAabb

\* the steps of buildRecursive that a range without centroid span can take
CoincidentBuildStep ==
  \/ AllocNode
  \/ SmallLeaf
  \/ SplitSearch
  \/ CostLeaf

CoincidentNext ==
  \/ BuildCall(triangles) /\ UNCHANGED appVars /\ UNCHANGED aabbVars
  \/ CoincidentBuildStep /\ UNCHANGED appVars /\ UNCHANGED aabbVars
  \/ RefitCall /\ UNCHANGED appVars /\ UNCHANGED aabbVars

CoincidentSpec == CoincidentInit /\ [][CoincidentNext]_vars

\* position of an activation of buildRecursive, in program order
Rank(p) ==
  CASE p = "enter" -> 0 [] p = "decide" -> 1 [] p = "cost" -> 2
    [] p = "left" -> 3 [] p = "callRight" -> 4 [] p = "right" -> 5 [] OTHER -> 6

CoincidentCentroids ==
  \A i, j \in 1..Len(triangles) :
    center(getTriangleBounds(triangles[i])) = center(getTriangleBounds(triangles[j]))

\* C11: for more than 4 triangles whose centroids coincide on all three axes,
\* build never recurses (the only activation is the root's, over the whole
\* range), findBestSplit returns FLT_MAX so the leaf branch is the one taken,
\* every step moves the activation forward, and the result is one root leaf
\* whose run holds all N primitives.
C11_CoincidentRootLeaf ==
  /\ []((CoincidentCentroids /\ pc = "build") =>
          /\ Len(stack) = 1
          /\ Top.start = 0 /\ Top.end = builtCount
          /\ Top.pc \in {"enter", "decide", "cost"}
          /\ (Top.pc = "cost" =>
                /\ Top.splitCost = CostMax
                /\ costAtLeast(Top.splitCost, Top.end - Top.start)))
  /\ [][(CoincidentCentroids /\ pc = "build" /\ pc' = "build") =>
          Rank(stack'[1].pc) > Rank(stack[1].pc)]_vars
  /\ []((CoincidentCentroids /\ AfterBuild /\ builtCount > MAX_PRIMS_IN_LEAF) =>
          /\ Len(nodes) = 1
          /\ IsLeaf(0) /\ LeafOffset(0) = 0 /\ LeafCount(0) = builtCount
          /\ {At(primitiveIndices, k) : k \in LeafRun(0)} = 0..(builtCount - 1))

C11_Witness ==
  /\ AfterBuild
  /\ builtCount > MAX_PRIMS_IN_LEAF
  /\ CoincidentCentroids
  /\ Len(nodes) = 1
  /\ \E i, j \in 1..Len(triangles) :
       getTriangleBounds(triangles[i]) # getTriangleBounds(triangles[j])

\* ----------------------------------------------------- build as a function
\* buildRecursive, lines 142-192, as one evaluation on explicit arrays
RECURSIVE buildRecursive(_, _, _, _, _)
buildRecursive(ns, indices, prims, start, end) ==
  LET nodeIndex == Len(ns)
      ns1 == Append(ns, Placeholder)
      bounds == rangeBounds(prims, start, end)
      numPrims == end - start
  IN  IF fitsLeaf(numPrims)
      THEN LET leaf == createLeaf(ns1, indices, nodeIndex, bounds, prims, start, end)
           IN  [nodes |-> leaf.nodes, primitiveIndices |-> leaf.primitiveIndices,
                primInfo |-> prims, nodeIndex |-> nodeIndex]
      ELSE LET best == findBestSplit(prims, start, end, bounds)
           IN  IF costAtLeast(best.cost, numPrims)
               THEN LET leaf == createLeaf(ns1, indices, nodeIndex, bounds,
                                           best.prims, start, end)
                    IN  [nodes |-> leaf.nodes,
                         primitiveIndices |-> leaf.primitiveIndices,
                         primInfo |-> best.prims, nodeIndex |-> nodeIndex]
               ELSE LET sorted == nthElement(best.prims, start, best.pos, end, best.dim)
                        l == buildRecursive(ns1, indices, sorted, start, best.pos)
                        r == buildRecursive(l.nodes, l.primitiveIndices, l.primInfo,
                                            best.pos, end)
                    IN  [nodes |-> [r.nodes EXCEPT ![nodeIndex + 1] =
                                      internalNode(bounds, l.nodeIndex, r.nodeIndex)],
                         primitiveIndices |-> r.primitiveIndices,
                         primInfo |-> r.primInfo, nodeIndex |-> nodeIndex]

\* build, lines 47-75, from a builder holding nothing
build(T) ==
  IF T = << >> THEN [nodes |-> << >>, primitiveIndices |-> << >>]
  ELSE LET b == buildRecursive(<< >>, << >>, makePrimInfo(T), 0, Len(T))
       IN  [nodes |-> b.nodes, primitiveIndices |-> b.primitiveIndices]

\* C12: whatever the builder held before the call (nothing, another hierarchy,
\* a refitted or edited one), the nodes and primitiveIndices that a build call
\* leaves are those a fresh builder computes from the same ordered list, so
\* two builds of the same list give identical results.
C12_BuildDependsOnInputOnly ==
  /\ AfterBuild =>
       /\ nodes = build(triangles).nodes
       /\ primitiveIndices = build(triangles).primitiveIndices
  /\ (pc = "idle" /\ lastOp \in {"build", "rebuild"} /\ builtCount = 0) =>
       /\ nodes = build(<< >>).nodes
       /\ primitiveIndices = build(<< >>).primitiveIndices

C12_Witness ==
  /\ pc = "idle"
  /\ lastOp = "rebuild"
  /\ builtCount > MAX_PRIMS_IN_LEAF
  /\ Len(nodes) > 1
  /\ \E j \in 0..(Len(primitiveIndices) - 1) : At(primitiveIndices, j) # j

\* ------------------------------------------------------------- centroids
\* three times the average of the vertex positions of a triangle
VertexSum(t) ==
  <<t.v0[1] + t.v1[1] + t.v2[1], t.v0[2] + t.v1[2] + t.v2[2],
    t.v0[3] + t.v1[3] + t.v2[3]>>

\* C13: whenever findBestSplit has just run on a range, the centroid it used
\* for each primitive of the range (span test, bucket assignment, partition
\* predicate; nth_element reads the same field) is the average of the three
\* vertex positions of that primitive's triangle.
C13_CentroidIsVertexAverage ==
  (pc = "build" /\ Top.pc = "cost") =>
    \A i \in Top.start..(Top.end - 1) :
      LET p == At(primInfo, i)
      IN  <<3 * p.centroid[1], 3 * p.centroid[2], 3 * p.centroid[3]>>
            = VertexSum(At(triangles, p.primitiveIndex))

\* ------------------------------------------------------- split placement
\* the activations of buildRecursive that are past their nth_element call
SplitFrames ==
  {k \in 1..Len(stack) : stack[k].pc \in {"left", "callRight", "right", "finish"}}

\* C16: for every activation that has split its range, with winning axis
\* splitDim and the threshold of the candidate that set bestCost, every
\* primitive of the range whose centroid on that axis is below the threshold
\* lies in [start, splitPos), the range given to the left child, from the
\* nth_element call until the node is written.
C16_BelowThresholdGoesLeft ==
  pc = "build" =>
    \A k \in SplitFrames :
      \A i \in stack[k].start..(stack[k].end - 1) :
        belowSplit(At(primInfo, i), stack[k].splitDim, stack[k].threshold12)
          => i < stack[k].splitPos

C16_Witness ==
  /\ pc = "build"
  /\ \E k \in SplitFrames :
       /\ stack[k].pc = "finish"
       /\ stack[k].splitDim = 1
       /\ \E i, j \in stack[k].start..(stack[k].end - 1) :
            /\ At(primInfo, i).centroid[1] # At(primInfo, j).centroid[1]
            /\ belowSplit(At(primInfo, i), 1, stack[k].threshold12)
            /\ ~belowSplit(At(primInfo, j), 1, stack[k].threshold12)

\* ------------------------------------------------- cube face and far triangles
\* Two triangles forming one face of a cube of side 2 at the origin, and three
\* triangles of the same size about 200 away along x.
ScenePositions ==
  << Tri(<<0, 0, 0>>, <<2, 0, 0>>, <<2, 2, 0>>),
     Tri(<<0, 0, 0>>, <<2, 2, 0>>, <<0, 2, 0>>),
     Tri(<<200, 0, 0>>, <<202, 0, 0>>, <<200, 2, 0>>),
     Tri(<<204, 0, 0>>, <<206, 0, 0>>, <<204, 2, 0>>),
     Tri(<<200, 4, 0>>, <<202, 4, 0>>, <<200, 6, 0>>) >>

\* the scene, and the scene reduced to fewer triangles, in every order
SceneLists ==
  {T \in UNION { [1..n -> {ScenePositions[k] : k \in 1..Len(ScenePositions)}] :
                   n \in 0..Min2(MaxTris, Len(ScenePositions)) } :
     \A i, j \in 1..Len(T) : i # j => T[i] # T[j]}

SceneInit ==
  /\ triangles \in SceneLists
  /\ nodes = << >>
  /\ primitiveIndices = << >>
  /\ primInfo = << >>
  /\ stack = << >>
  /\ pc = "idle"
  /\ lastOp = "none"
  /\ builtCount = 0
  /\ edits = 0
  /\ NoApp
  /\ NoAabb

SceneNext ==
  \/ BuildCall(triangles) /\ UNCHANGED appVars /\ UNCHANGED aabbVars
  \/ AllocNode /\ UNCHANGED appVars /\ UNCHANGED aabbVars
  \/ SmallLeaf /\ UNCHANGED appVars /\ UNCHANGED aabbVars
  \/ SplitSearch /\ UNCHANGED appVars /\ UNCHANGED aabbVars
  \/ PartitionLeft /\ UNCHANGED appVars /\ UNCHANGED aabbVars
  \/ RecurseRight /\ UNCHANGED appVars /\ UNCHANGED aabbVars
  \/ FinishNode /\ UNCHANGED appVars /\ UNCHANGED aabbVars
  \/ RefitCall /\ UNCHANGED appVars /\ UNCHANGED aabbVars

SceneSpec == SceneInit /\ [][SceneNext]_vars

\* two boxes share at most boundary points
DisjointOrTouching(a, b) ==
  \E ax \in Axes : a.max[ax] <= b.min[ax] \/ b.max[ax] <= a.min[ax]

BoxOf(i) == [min |-> Box(i).min, max |-> Box(i).max]

\* C19: the build over the five triangles (a cube face of two triangles and
\* three far-away triangles) has more than one node, an internal root whose
\* children's boxes are disjoint or touching and together give exactly the
\* root's box; the same scene reduced to at most 4 triangles is one leaf; the
\* cost test is reached only for the five triangles and takes the split branch.
C19_SceneSplits ==
  /\ (AfterBuild /\ builtCount = 5) =>
       /\ Len(nodes) > 1
       /\ ~IsLeaf(0)
       /\ DisjointOrTouching(BoxOf(At(nodes, 0).leftChild),
                             BoxOf(At(nodes, 0).rightChild))
       /\ expandBox(BoxOf(At(nodes, 0).leftChild), BoxOf(At(nodes, 0).rightChild))
            = BoxOf(0)
  /\ (AfterBuild /\ builtCount <= 4) =>
       /\ Len(nodes) = 1
       /\ IsLeaf(0)
  /\ (pc = "build" /\ Top.pc = "cost") =>
       /\ Top.end - Top.start = 5
       /\ ~costAtLeast(Top.splitCost, Top.end - Top.start)

C19_Witness ==
  /\ AfterBuild
  /\ builtCount = 5
  /\ triangles[1] = ScenePositions[3]
  /\ triangles[2] = ScenePositions[1]
  /\ Len(nodes) = 3

\* ------------------------------------------------------------ larger inputs
\* Inputs of up to MaxDeep small triangles spread along x and y, five of them
\* at one place, which build into hierarchies several levels deep.
MaxDeep == 9

TriAt(p) ==
  Tri(p, <<p[1] + 2, p[2], p[3]>>, <<p[1], p[2] + 2, p[3]>>)

Anchors ==
  << <<0, 0, 0>>, <<6, 0, 0>>, <<60, 12, 0>>, <<12, 0, 0>>,
     <<30, 0, 0>>, <<30, 0, 0>>, <<30, 0, 0>>, <<30, 0, 0>>, <<30, 0, 0>>,
     <<0, 12, 0>>, <<36, 0, 0>>, <<60, 0, 0>>, <<6, 12, 0>>, <<32, 4, 0>> >>

\* the runs Anchors[i..j] of at most MaxDeep triangles, forwards and backwards
DeepLists ==
  {[k \in 1..(j - i + 1) |-> TriAt(Anchors[i + k - 1])] :
     i \in 1..Len(Anchors), j \in 0..Len(Anchors)} \cup
  {[k \in 1..(j - i + 1) |-> TriAt(Anchors[j - k + 1])] :
     i \in 1..Len(Anchors), j \in 0..Len(Anchors)}

DeepInit ==
  /\ triangles \in {T \in DeepLists : Len(T) <= MaxDeep}
  /\ nodes = << >>
  /\ primitiveIndices = << >>
  /\ primInfo = << >>
  /\ stack = << >>
  /\ pc = "idle"
  /\ lastOp = "none"
  /\ builtCount = 0
  /\ edits = 0
  /\ NoApp
  /\ NoAabb

DeepNext ==
  \/ BuildCall(triangles) /\ UNCHANGED appVars /\ UNCHANGED aabbVars
  \/ AllocNode /\ UNCHANGED appVars /\ UNCHANGED aabbVars
  \/ SmallLeaf /\ UNCHANGED appVars /\ UNCHANGED aabbVars
  \/ SplitSearch /\ UNCHANGED appVars /\ UNCHANGED aabbVars
  \/ CostLeaf /\ UNCHANGED appVars /\ UNCHANGED aabbVars
  \/ PartitionLeft /\ UNCHANGED appVars /\ UNCHANGED aabbVars
  \/ RecurseRight /\ UNCHANGED appVars /\ UNCHANGED aabbVars
  \/ FinishNode /\ UNCHANGED appVars /\ UNCHANGED aabbVars
  \/ RefitCall /\ UNCHANGED appVars /\ UNCHANGED aabbVars

DeepSpec == DeepInit /\ [][DeepNext]_vars

\* the (parent, side) pairs that name node j as a child
ParentsOf(j) ==
  {<<i, side>> \in NodeIds \X {"left", "right"} :
     /\ ~IsLeaf(i)
     /\ j = (IF side = "left" THEN At(nodes, i).leftChild ELSE At(nodes, i).rightChild)}

\* the nodes reached from the set S by following child indices
RECURSIVE ReachableFrom(_)
ReachableFrom(S) ==
  LET next == S \cup {At(nodes, i).leftChild : i \in {k \in S : ~IsLeaf(k)}}
                \cup {At(nodes, i).rightChild : i \in {k \in S : ~IsLeaf(k)}}
  IN  IF next = S THEN S ELSE ReachableFrom(next)

\* C20: whenever the builder is at rest with a hierarchy, node 0 is the child
\* of no node, every other node is named as a child exactly once, and every
\* node is reached from node 0.
C20_SingleTree ==
  Built =>
    /\ ParentsOf(0) = {}
    /\ \A j \in NodeIds \ {0} : Cardinality(ParentsOf(j)) = 1
    /\ ReachableFrom({0}) = NodeIds

C20_Witness ==
  /\ AfterBuild
  /\ Len(nodes) > 5
  /\ \E i \in NodeIds \ {0} : ~IsLeaf(i) /\ ~IsLeaf(At(nodes, i).rightChild)

\* ------------------------------------------- refit on an array of another size
\* The caller adds a triangle to its array or removes the last one.
ResizeTriangles ==
  /\ pc = "idle"
  /\ edits < MaxEdits
  /\ \/ \E t \in TrianglePool :
          /\ Len(triangles) < MaxTris
          /\ triangles' = Append(triangles, t)
     \/ /\ triangles # << >>
        /\ triangles' = SubSeq(triangles, 1, Len(triangles) - 1)
  /\ edits' = edits + 1
  /\ lastOp' = "edit"
  /\ UNCHANGED <<nodes, primitiveIndices, primInfo, stack, pc, builtCount>>

\* refitNode line 105 stays inside the array for every index of every leaf run
readsInRange(ns, indices, tris) ==
  \A i \in 1..Len(ns) :
    ns[i].leftChild < 0 =>
      \A k \in 0..(ns[i].rightChild - 1) :
        At(indices, -ns[i].leftChild - 1 + k) < Len(tris)

\* the array as line 105 sees it when reads past its end return the bytes g
readPastEnd(tris, n, g) ==
  [i \in 1..Max2(n, Len(tris)) |-> IF i <= Len(tris) THEN tris[i] ELSE g]

\* refit, lines 80-83, called with whatever the caller's array now is. A read
\* past the end of the array is undefined: it returns some bytes, or the
\* process stops.
RefitCallAnySize ==
  /\ pc = "idle"
  /\ IF readsInRange(nodes, primitiveIndices, triangles)
     THEN /\ nodes' = refit(nodes, primitiveIndices, triangles)
          /\ pc' = pc
     ELSE \/ \E g \in TrianglePool :
               /\ nodes' = refit(nodes, primitiveIndices,
                                 readPastEnd(triangles, builtCount, g))
               /\ pc' = pc
          \/ /\ pc' = "crashed"
             /\ nodes' = nodes
  /\ lastOp' = "refit"
  /\ UNCHANGED <<triangles, primitiveIndices, primInfo, stack, builtCount, edits>>

MismatchNext ==
  \/ BuildCall(triangles) /\ UNCHANGED appVars /\ UNCHANGED aabbVars
  \/ AllocNode /\ UNCHANGED appVars /\ UNCHANGED aabbVars
  \/ SmallLeaf /\ UNCHANGED appVars /\ UNCHANGED aabbVars
  \/ SplitSearch /\ UNCHANGED appVars /\ UNCHANGED aabbVars
  \/ CostLeaf /\ UNCHANGED appVars /\ UNCHANGED aabbVars
  \/ PartitionLeft /\ UNCHANGED appVars /\ UNCHANGED aabbVars
  \/ RecurseRight /\ UNCHANGED appVars /\ UNCHANGED aabbVars
  \/ FinishNode /\ UNCHANGED appVars /\ UNCHANGED aabbVars
  \/ ResizeTriangles /\ UNCHANGED appVars /\ UNCHANGED aabbVars
  \/ RefitCallAnySize /\ UNCHANGED appVars /\ UNCHANGED aabbVars

MismatchSpec == Init /\ [][MismatchNext]_vars

SizeMismatch == nodes # << >> /\ Len(triangles) # builtCount

\* C15: a refit call with an array whose size differs from the size of the
\* array the hierarchy was built from is detected: it writes no node box,
\* indexes no triangle out of range, and returns.
C15_RefitChecksTriangleCount ==
  [][(RefitCallAnySize /\ SizeMismatch) =>
       /\ nodes' = nodes
       /\ readsInRange(nodes, primitiveIndices, triangles)
       /\ pc' = "idle"]_vars


\* ------------------------------------------------------------------ main
\* The application around the builder: two mesh instances are loaded and
\* transformed into allTriangles (the variable triangles), the hierarchy is
\* built once, and every frame renders from the GPU buffers and then, when
\* the GUI changed an instance, re-transforms, re-uploads and refits.

\* a triangle as rt_Mesh::generateTriangles makes it: the cached centroid
\* c = (cx, cy, cz) is the average of the vertices
MeshTri(a, b, d, m) ==
  [v0 |-> a, v1 |-> b, v2 |-> d, materialID |-> m,
   c |-> <<(a[1] + b[1] + d[1]) \div 3, (a[2] + b[2] + d[2]) \div 3,
           (a[3] + b[3] + d[3]) \div 3>>]

\* the material ids main gives the two instances
InstanceMaterial(i) == IF i = 0 THEN 8 ELSE 7

\* the two meshes in object space, as main loads them
Mesh(i) ==
  IF i = 0
  THEN << MeshTri(<<0, 0, 0>>, <<6, 0, 0>>, <<0, 6, 0>>, 8),
          MeshTri(<<6, 6, 0>>, <<6, 0, 0>>, <<0, 6, 0>>, 8) >>
  ELSE << MeshTri(<<0, 0, 0>>, <<6, 0, 0>>, <<0, 0, 6>>, 7),
          MeshTri(<<6, 0, 6>>, <<6, 0, 0>>, <<0, 0, 6>>, 7),
          MeshTri(<<0, 0, 0>>, <<0, 6, 0>>, <<0, 0, 6>>, 7) >>

\* another file for instance 1: three triangles that share one bounding
\* box, centred at (0, -6, 12) in object space
CompactMesh ==
  << MeshTri(<<-3, -9, 9>>, <<3, -3, 15>>, <<-3, -3, 12>>, 7),
     MeshTri(<<-3, -9, 15>>, <<3, -3, 9>>, <<3, -9, 12>>, 7),
     MeshTri(<<3, -9, 9>>, <<-3, -3, 15>>, <<0, -6, 12>>, 7) >>

\* what rt_Mesh can hold after reading the file of instance i: nothing when
\* the file cannot be read
MeshFiles(i) ==
  IF i = 0 THEN {<< >>, Mesh(0)} ELSE {<< >>, Mesh(1), CompactMesh}

\* values the GUI widgets can take: positions, quarter turns about y,
\* uniform scales, material ids
PositionChoices == {<<0, 0, 0>>, <<12, -6, 0>>}
RotationChoices == {0, 1}
ScaleChoices == {0, 1}
MaterialChoices == {7, 8}

\* main's initial meshPositions, meshRotations, meshScales: both instances
\* are rotated about y, instance 0 starts with scale 0, instance 1 with a
\* non-zero scale
InitialParams ==
  [i \in Instances |->
     IF i = 0 THEN [position |-> <<12, -6, 0>>, rotation |-> 1, scale |-> 0]
     ELSE [position |-> <<0, 0, 0>>, rotation |-> 1, scale |-> 1]]

\* a model matrix translate * rotate * scale, kept by its factors
IdentityModel == [t |-> <<0, 0, 0>>, r |-> 0, s |-> 1]

\* MeshInstance's default member initialisers
DefaultInstance ==
  [firstTri |-> 0, triCount |-> 0, model |-> IdentityModel, materialID |-> -1,
   originalTris |-> << >>, position |-> <<0, 0, 0>>, rotation |-> 0,
   scale |-> 1]

\* glm::rotate about the y axis by r quarter turns
rotateY(r, p) == IF r = 0 THEN p ELSE <<p[3], p[2], -p[1]>>

\* MeshInstance::updateModel
updateModel(inst) ==
  [inst EXCEPT
     !.model = [t |-> inst.position, r |-> inst.rotation, s |-> inst.scale],
     !.originalTris = [k \in 1..Len(inst.originalTris) |->
                         [inst.originalTris[k] EXCEPT
                            !.materialID = inst.materialID]]]

\* ApplyTransform's xformP: M * vec4(p, 1)
xformP(M, p) ==
  LET q == rotateY(M.r, <<M.s * p[1], M.s * p[2], M.s * p[3]>>)
  IN  <<M.t[1] + q[1], M.t[2] + q[2], M.t[3] + q[3]>>

\* ApplyTransform: dst[i] is a copy of src[i] with its vertices transformed
ApplyTransform(src, M) ==
  [k \in 1..Len(src) |->
     [src[k] EXCEPT !.v0 = xformP(M, @), !.v1 = xformP(M, @),
                    !.v2 = xformP(M, @)]]

\* faulty variant: the transformed triangles are inserted at firstTri, in
\* front of the old ones
writeSliceInsert(all, first, tris) ==
  SubSeq(all, 1, first) \o tris \o SubSeq(all, first + 1, Len(all))

\* faulty variant: the copy starts at all.begin() whatever firstTri is
writeSliceAtStart(all, first, tris) ==
  [k \in 1..Len(all) |-> IF k <= Len(tris) THEN tris[k] ELSE all[k]]

\* std::copy(transformed.begin(), transformed.end(), all.begin() + first)
writeSlice(all, first, tris) ==
  [k \in 1..Len(all) |->
     IF k > first /\ k <= first + Len(tris) THEN tris[k - first] ELSE all[k]]

\* the triangles of allTriangles that belong to an instance
sliceOf(all, inst) == SubSeq(all, inst.firstTri + 1, inst.firstTri + inst.triCount)

AppAt(a) == [at |-> a, i |-> 0]

AppInit ==
  /\ triangles = << >>
  /\ nodes = << >>
  /\ primitiveIndices = << >>
  /\ primInfo = << >>
  /\ stack = << >>
  /\ pc = "idle"
  /\ lastOp = "none"
  /\ builtCount = 0
  /\ edits = 0
  /\ instances = [i \in Instances |-> DefaultInstance]
  /\ meshParams = InitialParams
  /\ gpu = [tris |-> << >>, nodes |-> << >>]
  /\ appPc = [at |-> "load", i |-> 0]
  /\ NoAabb

\* where main goes after the instance loop at index i
afterInstance(i, again, done) ==
  IF i + 1 \in Instances THEN [at |-> again, i |-> i + 1] ELSE AppAt(done)

builderIdle == UNCHANGED <<nodes, primitiveIndices, primInfo, stack, pc, builtCount>>

\* the try block that sets up instance appPc.i from the triangles rt_Mesh
\* holds
LoadInstance(mesh) ==
  /\ appPc.at = "load"
  /\ LET i == appPc.i
         meshInst == updateModel(
           [DefaultInstance EXCEPT
              !.materialID = InstanceMaterial(i),
              !.originalTris = mesh,
              !.firstTri = Len(triangles),
              !.triCount = Len(mesh),
              !.position = meshParams[i].position,
              !.rotation = meshParams[i].rotation,
              !.scale = meshParams[i].scale])
     IN  /\ instances' = [instances EXCEPT ![i] = meshInst]
         /\ triangles' = triangles \o
              ApplyTransform(meshInst.originalTris, meshInst.model)
         /\ appPc' = afterInstance(i, "load", "build")
  /\ builderIdle
  /\ UNCHANGED <<lastOp, edits, meshParams, gpu>>

\* bvhBuilder.build(allTriangles)
AppBuild ==
  /\ appPc.at = "build"
  /\ BuildCall(triangles)
  /\ appPc' = AppAt("building")
  /\ UNCHANGED <<instances, meshParams, gpu>>

\* the creation of triSSBO and bvhSSBO once build has returned
InitialUpload ==
  /\ appPc.at = "building"
  /\ pc = "idle"
  /\ gpu' = [tris |-> triangles, nodes |-> nodes]
  /\ appPc' = AppAt("render")
  /\ builderIdle
  /\ UNCHANGED <<triangles, lastOp, edits, instances, meshParams>>

\* the raytracing pass of a frame: it reads the buffers
Render ==
  /\ appPc.at = "render"
  /\ appPc' = AppAt("gui")
  /\ builderIdle
  /\ UNCHANGED <<triangles, lastOp, edits, instances, meshParams, gpu>>

\* a frame in which no widget of the mesh panel changed
GuiIdle ==
  /\ appPc.at = "gui"
  /\ appPc' = AppAt("render")
  /\ builderIdle
  /\ UNCHANGED <<triangles, lastOp, edits, instances, meshParams, gpu>>

\* a frame in which a widget of instance i changed: anyMeshMoved is set
GuiEdit(i) ==
  /\ appPc.at = "gui"
  /\ edits < MaxEdits
  /\ \/ \E p \in PositionChoices \ {meshParams[i].position} :
          /\ meshParams' = [meshParams EXCEPT ![i].position = p]
          /\ UNCHANGED instances
     \/ \E r \in RotationChoices \ {meshParams[i].rotation} :
          /\ meshParams' = [meshParams EXCEPT ![i].rotation = r]
          /\ UNCHANGED instances
     \/ \E s \in ScaleChoices \ {meshParams[i].scale} :
          /\ meshParams' = [meshParams EXCEPT ![i].scale = s]
          /\ UNCHANGED instances
     \/ \E m \in MaterialChoices \ {instances[i].materialID} :
          /\ instances' = [instances EXCEPT ![i].materialID = m]
          /\ UNCHANGED meshParams
  /\ edits' = edits + 1
  /\ appPc' = [at |-> "transform", i |-> 0]
  /\ builderIdle
  /\ UNCHANGED <<triangles, lastOp, gpu>>

\* one round of the loop over the instances under if (anyMeshMoved)
TransformInstance ==
  /\ appPc.at = "transform"
  /\ LET i == appPc.i
         inst == updateModel(
           [instances[i] EXCEPT
              !.position = meshParams[i].position,
              !.rotation = meshParams[i].rotation,
              !.scale = meshParams[i].scale])
     IN  /\ instances' = [instances EXCEPT ![i] = inst]
         /\ triangles' = writeSlice(triangles, inst.firstTri,
                                    ApplyTransform(inst.originalTris, inst.model))
         /\ appPc' = afterInstance(i, "transform", "uploadTris")
  /\ lastOp' = "edit"
  /\ builderIdle
  /\ UNCHANGED <<edits, meshParams, gpu>>

\* faulty variant: the nodes are uploaded right after the triangles, without
\* a refit in between
nextStageSkipRefit(at) ==
  IF at = "uploadTris" THEN "uploadNodes" ELSE "render"

\* the statement that follows a statement of the block under
\* if (anyMeshMoved), once the loop over the instances has ended
nextStage(at) ==
  CASE at = "uploadTris" -> "refit"
    [] at = "refit" -> "uploadNodes"
    [] at = "uploadNodes" -> "render"

\* glBufferSubData on triSSBO
UploadTriangles ==
  /\ appPc.at = "uploadTris"
  /\ gpu' = [gpu EXCEPT !.tris = triangles]
  /\ appPc' = AppAt(nextStage(appPc.at))
  /\ builderIdle
  /\ UNCHANGED <<triangles, lastOp, edits, instances, meshParams>>

\* bvhBuilder.refit(allTriangles)
AppRefit ==
  /\ appPc.at = "refit"
  /\ RefitCall
  /\ appPc' = AppAt(nextStage(appPc.at))
  /\ UNCHANGED <<instances, meshParams, gpu>>

\* glBufferSubData on bvhSSBO
UploadNodes ==
  /\ appPc.at = "uploadNodes"
  /\ gpu' = [gpu EXCEPT !.nodes = nodes]
  /\ appPc' = AppAt(nextStage(appPc.at))
  /\ builderIdle
  /\ UNCHANGED <<triangles, lastOp, edits, instances, meshParams>>

AppNext ==
  \/ \E mesh \in MeshFiles(appPc.i) : LoadInstance(mesh) /\ UNCHANGED aabbVars
  \/ AppBuild /\ UNCHANGED aabbVars
  \/ AllocNode /\ UNCHANGED appVars /\ UNCHANGED aabbVars
  \/ SmallLeaf /\ UNCHANGED appVars /\ UNCHANGED aabbVars
  \/ SplitSearch /\ UNCHANGED appVars /\ UNCHANGED aabbVars
  \/ CostLeaf /\ UNCHANGED appVars /\ UNCHANGED aabbVars
  \/ PartitionLeft /\ UNCHANGED appVars /\ UNCHANGED aabbVars
  \/ RecurseRight /\ UNCHANGED appVars /\ UNCHANGED aabbVars
  \/ FinishNode /\ UNCHANGED appVars /\ UNCHANGED aabbVars
  \/ InitialUpload /\ UNCHANGED aabbVars
  \/ Render /\ UNCHANGED aabbVars
  \/ GuiIdle /\ UNCHANGED aabbVars
  \/ \E i \in Instances : GuiEdit(i) /\ UNCHANGED aabbVars
  \/ TransformInstance /\ UNCHANGED aabbVars
  \/ UploadTriangles /\ UNCHANGED aabbVars
  \/ AppRefit /\ UNCHANGED aabbVars
  \/ UploadNodes /\ UNCHANGED aabbVars

AppSpec == AppInit /\ [][AppNext]_vars


\* --------------------------------------------------- claims about main
\* C14: after ApplyTransform every output triangle's cached centroid
\* (cx, cy, cz) is the average of its three transformed vertex positions,
\* whatever the model matrix: once the instances are set up, three times the
\* cached centroid of every triangle of allTriangles is its vertex sum.
C14_CachedCentroidFollowsTransform ==
  appPc.at \notin {"none", "load"} =>
    \A k \in 1..Len(triangles) :
      <<3 * triangles[k].c[1], 3 * triangles[k].c[2], 3 * triangles[k].c[3]>>
        = VertexSum(triangles[k])

\* the vertex positions of a triangle list, without the other fields
vertexPositions(tris) ==
  [k \in 1..Len(tris) |-> <<tris[k].v0, tris[k].v1, tris[k].v2>>]

\* every instance's slice of allTriangles is ApplyTransform of its
\* originalTris under its model matrix, and that matrix is the one of the
\* current GUI parameters
SlicesCurrent ==
  \A i \in Instances :
    /\ sliceOf(triangles, instances[i])
         = ApplyTransform(instances[i].originalTris, instances[i].model)
    /\ instances[i].triCount = Len(instances[i].originalTris)
    /\ instances[i].model = [t |-> meshParams[i].position,
                             r |-> meshParams[i].rotation,
                             s |-> meshParams[i].scale]

\* C17: whenever main is about to call refit (and likewise when it is about
\* to call build after the load), each instance's slice
\* [firstTri, firstTri + triCount) of allTriangles equals ApplyTransform of
\* the instance's originalTris under its current model matrix; and once the
\* instances are loaded no step changes a vertex position in originalTris.
C17_SlicesAreTransformedOriginals ==
  /\ [](appPc.at \in {"build", "refit"} => SlicesCurrent)
  /\ [][appPc.at \notin {"none", "load"} =>
          \A i \in Instances :
            vertexPositions(instances'[i].originalTris)
              = vertexPositions(instances[i].originalTris)]_vars

\* main is about to call refit after two edits; both instances hold
\* triangles, instance 1 has been moved and its material changed
C17_Witness ==
  /\ appPc.at = "refit"
  /\ edits = MaxEdits
  /\ \A i \in Instances : instances[i].triCount > 0
  /\ instances[1].model.t # InitialParams[1].position
  /\ instances[1].originalTris[1].materialID # InstanceMaterial(1)

\* the boxes of a node array are the ones a refit over these triangles gives
FreshFor(ns, tris) == refit(ns, primitiveIndices, tris) = ns

\* the rank of a statement in the block under if (anyMeshMoved)
EditStage(at) ==
  CASE at = "transform" -> 1
    [] at = "uploadTris" -> 2
    [] at = "refit" -> 3
    [] at = "uploadNodes" -> 4
    [] OTHER -> 5

\* C18: in a frame with a mesh edit the steps come in the order transform all
\* instances, upload triangles, refit, upload nodes: the edit starts the
\* transform loop; each step of the block goes to the next stage (the loop
\* may stay in its own); the step out of the refit stage is a refit; when
\* refit is about to run every slice is re-transformed; when the nodes are
\* about to be uploaded they are the refit result for the uploaded
\* triangles; and whenever a raytracing pass is about to be issued the
\* buffers hold the current triangles and nodes, with boxes fresh for them.
C18_EditFrameOrder ==
  /\ [](appPc.at = "refit" => SlicesCurrent /\ gpu.tris = triangles)
  /\ [](appPc.at = "uploadNodes" =>
          /\ lastOp = "refit"
          /\ gpu.tris = triangles
          /\ FreshFor(nodes, triangles))
  /\ [](appPc.at = "render" =>
          /\ gpu.tris = triangles
          /\ gpu.nodes = nodes
          /\ FreshFor(gpu.nodes, gpu.tris))
  /\ [][(appPc.at = "gui" /\ edits' # edits) => appPc'.at = "transform"]_vars
  /\ [][EditStage(appPc.at) < 5 =>
          /\ EditStage(appPc'.at) \in {EditStage(appPc.at), EditStage(appPc.at) + 1}
          /\ EditStage(appPc'.at) = EditStage(appPc.at) => appPc.at = "transform"
          /\ appPc.at = "refit" => nodes' = refit(nodes, primitiveIndices, triangles)]_vars

\* a raytracing pass is about to be issued after an edit that moved
\* instance 1 of a scene with a split hierarchy, and the refit has run
C18_Witness ==
  /\ appPc.at = "render"
  /\ lastOp = "refit"
  /\ edits > 0
  /\ Len(nodes) > 1
  /\ instances[1].model.t # InitialParams[1].position


\* ------------------------------------------------------------ leaf runs
Leaves == {i \in NodeIds : IsLeaf(i)}

\* C21: after build over N triangles the runs [offset, offset + count) of the
\* leaves are pairwise disjoint, each is a non-empty slice inside
\* primitiveIndices, and together they are exactly the positions 0..N-1.
C21_LeafRunsPartition ==
  AfterBuild =>
    /\ \A i \in Leaves :
         /\ LeafCount(i) >= 1
         /\ LeafRun(i) \subseteq 0..(Len(primitiveIndices) - 1)
    /\ \A i, j \in Leaves : i # j => LeafRun(i) \cap LeafRun(j) = {}
    /\ UNION {LeafRun(i) : i \in Leaves} = 0..(builtCount - 1)

\* a build that left at least four leaves, one of them with a single index
C21_Witness ==
  /\ AfterBuild
  /\ Cardinality(Leaves) >= 4
  /\ \E i \in Leaves : LeafCount(i) = 1


\* ------------------------------------------------------- leaf or split
\* the float c is strictly less than the int n
StrictlyBelow(c, n) == c.kind = "num" /\ c.num < n * c.den

\* the positions of primInfo that lie under node i
RECURSIVE RangeOf(_)
RangeOf(i) ==
  IF IsLeaf(i) THEN LeafRun(i)
  ELSE RangeOf(At(nodes, i).leftChild) \cup RangeOf(At(nodes, i).rightChild)

\* the descriptors of the triangles in the order of primitiveIndices
EmittedPrims ==
  [k \in 1..Len(primitiveIndices) |->
     At(makePrimInfo(triangles), primitiveIndices[k])]

\* C23: when buildRecursive has the best cost of a range of more than 4
\* primitives, the range becomes an internal node (the two recursive calls
\* follow) exactly when that cost is strictly less than the primitive count,
\* and otherwise, also for the FLT_MAX of a search without candidate, the
\* whole range becomes one leaf; so after a build a leaf holds more than 4
\* primitives only if the search on its range finds no cost below its count,
\* and every internal node covers more than 4 primitives.
C23_SplitIffCheaper ==
  /\ [][(pc = "build" /\ Top.pc = "cost") =>
          LET n == Top.end - Top.start
          IN  /\ n > MAX_PRIMS_IN_LEAF
              /\ IF StrictlyBelow(Top.splitCost, n)
                 THEN /\ Len(stack') = Len(stack) + 1
                      /\ stack'[Len(stack)].pc = "left"
                      /\ UNCHANGED <<nodes, primitiveIndices>>
                 ELSE /\ nodes'[Top.nodeIndex + 1].leftChild < 0
                      /\ nodes'[Top.nodeIndex + 1].rightChild = n
                      /\ Len(stack') = Len(stack) - 1]_vars
  /\ [](AfterBuild =>
          \A i \in NodeIds :
            IF IsLeaf(i)
            THEN LeafCount(i) > MAX_PRIMS_IN_LEAF =>
                   ~StrictlyBelow(findBestSplit(EmittedPrims, LeafOffset(i),
                                                LeafOffset(i) + LeafCount(i),
                                                Box(i)).cost,
                                  LeafCount(i))
            ELSE Cardinality(RangeOf(i)) > MAX_PRIMS_IN_LEAF)

\* a build that split the root and left a leaf of more than 4 primitives
C23_Witness ==
  /\ AfterBuild
  /\ ~IsLeaf(0)
  /\ \E i \in Leaves : LeafCount(i) > MAX_PRIMS_IN_LEAF


\* ----------------------------------------------------------- termination
\* the activations of buildRecursive that have decided to split
SplitDecided(f) == f.pc \in {"left", "callRight", "right", "finish"}

RECURSIVE SumRanks(_)
SumRanks(stk) ==
  IF stk = << >> THEN 0
  ELSE (7 - Rank(stk[Len(stk)].pc)) + SumRanks(SubSeq(stk, 1, Len(stk) - 1))

\* activations of buildRecursive entered so far in this build
Entered ==
  Len(nodes) + (IF stack # << >> /\ stack[Len(stack)].pc = "enter" THEN 1 ELSE 0)

\* what is left to do of a build: the statements left in the live
\* activations, and 8 for each activation that can still be entered
Remaining(stk, entered) == SumRanks(stk) + 8 * (2 * builtCount - 1 - entered)

\* C25: whenever buildRecursive splits a range [start, end) the split index
\* satisfies start < splitPos < end, so each recursive call gets a non-empty
\* range strictly inside its caller's; and build terminates: the work
\* remaining is never negative and every step of a build makes it smaller.
C25_SplitInsideRange ==
  /\ [](pc = "build" =>
          /\ \A k \in 1..Len(stack) :
               /\ stack[k].start < stack[k].end
               /\ SplitDecided(stack[k]) =>
                    stack[k].start < stack[k].splitPos /\ stack[k].splitPos < stack[k].end
               /\ k > 1 =>
                    /\ stack[k].end - stack[k].start < stack[k - 1].end - stack[k - 1].start
                    /\ \/ stack[k - 1].pc = "left"
                          /\ stack[k].start = stack[k - 1].start
                          /\ stack[k].end = stack[k - 1].splitPos
                       \/ stack[k - 1].pc = "right"
                          /\ stack[k].start = stack[k - 1].splitPos
                          /\ stack[k].end = stack[k - 1].end
          /\ Remaining(stack, Entered) >= 0)
  /\ [][pc = "build" => Remaining(stack', Entered') < Remaining(stack, Entered)]_vars

\* a range that does not start at 0 has been split and its right part is
\* being built
C25_Witness ==
  /\ pc = "build"
  /\ \E k \in 2..Len(stack) :
       /\ stack[k].pc = "right"
       /\ stack[k].start > 0
       /\ stack[k].splitPos - stack[k].start > 1


\* -------------------------------------------------------------- capacity
\* nodes.reserve(2 * triangles.size()), line 67: the least capacity nodes
\* has during the build
reserved == 2 * builtCount

\* C26: at every step of a build over N >= 1 triangles nodes.size() <= 2N,
\* and <= 2N - 1 once the build has returned; every append to nodes finds
\* the size below the reserved capacity, so none reallocates.
C26_NodesWithinReserve ==
  /\ [](pc = "build" => Len(nodes) <= reserved)
  /\ [](AfterBuild => Len(nodes) <= reserved - 1)
  /\ [][(pc = "build" /\ Len(nodes') > Len(nodes)) =>
          /\ Len(nodes) < reserved
          /\ Len(nodes') = Len(nodes) + 1]_vars

\* a build is about to append its sixth node or a later one
C26_Witness ==
  /\ pc = "build"
  /\ Top.pc = "enter"
  /\ Len(nodes) >= 5


\* ----------------------------------------------------------- append-only
\* C27: during one build call, after the initial clear, nodes.size() and
\* primitiveIndices.size() never decrease and an entry of primitiveIndices,
\* once appended by a leaf, is never rewritten or removed; the searches and
\* partitions that follow reorder the descriptor table only beyond the
\* descriptors whose indices were emitted.
C27_AppendOnly ==
  /\ [][pc = "build" =>
          /\ Len(nodes') >= Len(nodes)
          /\ Len(primitiveIndices') >= Len(primitiveIndices)
          /\ SubSeq(primitiveIndices', 1, Len(primitiveIndices)) = primitiveIndices
          /\ pc' = "build" =>
               SubSeq(primInfo', 1, Len(primitiveIndices))
                 = SubSeq(primInfo, 1, Len(primitiveIndices))]_vars
  /\ [](pc = "build" =>
          \A k \in 1..Len(primitiveIndices) :
            primitiveIndices[k] = primInfo[k].primitiveIndex)

\* a later range is about to be partitioned after a leaf has emitted its
\* run, and the descriptor table beyond the run has been reordered
C27_Witness ==
  /\ pc = "build"
  /\ Top.pc = "cost"
  /\ Len(primitiveIndices) > 0
  /\ Top.start >= Len(primitiveIndices)
  /\ \E k \in (Len(primitiveIndices) + 1)..Len(primInfo) :
       primInfo[k].primitiveIndex # k - 1


\* ------------------------------------------------- refit right after build
\* C29: refit called right after build, on the same unmodified triangle
\* array, changes nothing: the min and max of every node after refit are the
\* values build wrote (and the child fields are kept as well).
C29_RefitAfterBuildIsNoOp ==
  /\ [](AfterBuild => refit(nodes, primitiveIndices, triangles) = nodes)
  /\ [][(AfterBuild /\ lastOp' = "refit") =>
          /\ nodes' = nodes
          /\ \A i \in NodeIds : Box(i) = [min |-> nodes'[i + 1].min,
                                          max |-> nodes'[i + 1].max]]_vars

\* refit has just run on a hierarchy of at least five nodes whose triangles
\* are those of the build
C29_Witness ==
  /\ pc = "idle"
  /\ lastOp = "refit"
  /\ edits = 0
  /\ Len(nodes) >= 5
  /\ \E i, j \in NodeIds : i # j /\ Box(i) # Box(j)


\* -------------------------------------------------------------- node order
\* number of nodes of the subtree of node i; a child index that does not
\* lie after its parent ends the count
RECURSIVE SubtreeSize(_)
SubtreeSize(i) ==
  IF IsLeaf(i) THEN 1
  ELSE LET l == At(nodes, i).leftChild
           r == At(nodes, i).rightChild
       IN  IF l \in NodeIds /\ r \in NodeIds /\ l > i /\ r > i
           THEN 1 + SubtreeSize(l) + SubtreeSize(r)
           ELSE 1

\* the sum of the counts of the leaves with a node index below i
RECURSIVE CountsBefore(_)
CountsBefore(i) ==
  IF i <= 0 THEN 0
  ELSE CountsBefore(i - 1) + (IF IsLeaf(i - 1) THEN LeafCount(i - 1) ELSE 0)

\* C30: the node array of a build is in depth-first pre-order: an internal
\* node i has leftChild = i + 1 and rightChild = i + 1 + (size of the left
\* subtree), which is greater than leftChild, so each child index is greater
\* than its parent's; nodes.size() = 2 * (number of leaves) - 1; and the
\* offset of each leaf is the sum of the counts of the leaves before it, so
\* offsets increase with the node index.
C30_PreOrder ==
  Built =>
    /\ \A i \in NodeIds \ Leaves :
         LET l == At(nodes, i).leftChild
             r == At(nodes, i).rightChild
         IN  /\ l = i + 1
             /\ r = i + 1 + SubtreeSize(l)
             /\ r > l
             /\ r \in NodeIds
    /\ SubtreeSize(0) = Len(nodes)
    /\ Len(nodes) = 2 * Cardinality(Leaves) - 1
    /\ \A i \in Leaves : LeafOffset(i) = CountsBefore(i)
    /\ \A i, j \in Leaves : i < j => LeafOffset(i) < LeafOffset(j)

\* a build of at least seven nodes in which the left subtree of some
\* internal node has more than one node
C30_Witness ==
  /\ AfterBuild
  /\ Len(nodes) >= 7
  /\ \E i \in NodeIds \ Leaves : At(nodes, i).rightChild > i + 2


\* ------------------------------------------------- the slices of main
\* the 1-based positions of allTriangles that instance i owns
SlicePositions(i) ==
  (instances[i].firstTri + 1)..(instances[i].firstTri + instances[i].triCount)

\* C28: once the instances are set up, through any sequence of mesh edits:
\* allTriangles keeps the length it had at the build call; the slices of the
\* instances are in bounds, pairwise disjoint and cover the array; position
\* k always holds the image, under its owner's model matrix, of the same
\* object-space triangle (firstTri, triCount and the object-space vertices
\* never change); and a round of the transform loop writes only inside the
\* slice of its instance.
C28_EditKeepsRefitPrecondition ==
  /\ [](appPc.at \notin {"none", "load"} =>
          /\ \A i \in Instances :
               /\ SlicePositions(i) \subseteq 1..Len(triangles)
               /\ instances[i].triCount = Len(instances[i].originalTris)
               /\ \A k \in SlicePositions(i) :
                    LET o == instances[i].originalTris[k - instances[i].firstTri]
                        M == instances[i].model
                    IN  /\ triangles[k].v0 = xformP(M, o.v0)
                        /\ triangles[k].v1 = xformP(M, o.v1)
                        /\ triangles[k].v2 = xformP(M, o.v2)
          /\ \A i, j \in Instances :
               i # j => SlicePositions(i) \cap SlicePositions(j) = {}
          /\ UNION {SlicePositions(i) : i \in Instances} = 1..Len(triangles))
  /\ [](appPc.at \notin {"none", "load", "build"} => Len(triangles) = builtCount)
  /\ [][appPc.at \notin {"none", "load"} =>
          /\ Len(triangles') = Len(triangles)
          /\ \A i \in Instances :
               /\ instances'[i].firstTri = instances[i].firstTri
               /\ instances'[i].triCount = instances[i].triCount
               /\ vertexPositions(instances'[i].originalTris)
                    = vertexPositions(instances[i].originalTris)
          /\ \A k \in 1..Len(triangles) :
               triangles'[k] # triangles[k] =>
                 appPc.at = "transform" /\ k \in SlicePositions(appPc.i)]_vars

\* after two edits (instance 0 given a non-zero scale, instance 1 moved)
\* both instances hold triangles and a frame is about to be rendered
C28_Witness ==
  /\ appPc.at = "render"
  /\ edits = MaxEdits
  /\ \A i \in Instances : instances[i].triCount > 0
  /\ instances[0].model.s = 1
  /\ instances[1].model.t # InitialParams[1].position


\* ------------------------------------------------- the best split, stated
\* The search of the activation on top of the stack, described from the set
\* of descriptors of its range rather than by the loops of findBestSplit.
RangeIds == Top.start..(Top.end - 1)

CentroidsOn(dim) == {At(primInfo, i).centroid[dim + 1] : i \in RangeIds}

BucketOf(i, dim) ==
  bucketIndexOf(At(primInfo, i).centroid[dim + 1],
                SetMin(CentroidsOn(dim)), SetMax(CentroidsOn(dim)))

LeftOf(dim, b) == {i \in RangeIds : BucketOf(i, dim) < b}
RightOf(dim, b) == RangeIds \ LeftOf(dim, b)

\* the union of the boxes of a set of descriptors
RECURSIVE UnionBox(_)
UnionBox(S) ==
  IF S = {} THEN EmptyAABB
  ELSE LET i == CHOOSE x \in S : TRUE
       IN  expandBox(UnionBox(S \ {i}), At(primInfo, i).bounds)

\* the candidates: an axis with non-zero centroid span and an interior
\* bucket boundary with primitives on both sides
Candidates ==
  {c \in (0..2) \X (1..(numBuckets - 1)) :
     /\ SetMin(CentroidsOn(c[1])) # SetMax(CentroidsOn(c[1]))
     /\ LeftOf(c[1], c[2]) # {}
     /\ RightOf(c[1], c[2]) # {}}

\* 0.125 + (leftCount * SA(leftBox) + rightCount * SA(rightBox)) / SA(parentBox)
CandidateCost(c) ==
  LET L == LeftOf(c[1], c[2])
      R == RightOf(c[1], c[2])
      n == Cardinality(L) * surfaceArea(UnionBox(L))
             + Cardinality(R) * surfaceArea(UnionBox(R))
      s == surfaceArea(Top.bounds)
  IN  [num |-> s + 8 * n, den |-> 8 * s]

Cheaper(a, b) == a.num * b.den < b.num * a.den

\* candidate c comes before candidate d in the order of the loops
Before(c, d) == c[1] < d[1] \/ (c[1] = d[1] /\ c[2] < d[2])

\* the candidates that no candidate is cheaper than
Cheapest ==
  LET costs == {<<c, CandidateCost(c)>> : c \in Candidates}
  IN  {p[1] : p \in {p \in costs : \A q \in costs : ~Cheaper(q[2], p[2])}}

\* the first of the cheapest candidates in the order of the loops, with its
\* cost (a set of one pair, empty when there is no candidate)
FirstCheapest ==
  LET costs == {<<c, CandidateCost(c)>> : c \in Cheapest}
  IN  {p \in costs : \A q \in costs : q = p \/ Before(p[1], q[1])}

RECURSIVE SumCounts(_, _)
SumCounts(buckets, b) ==
  IF b < 0 THEN 0 ELSE buckets[b].count + SumCounts(buckets, b - 1)

BoxNames == {"a", "b"}

\* the points given to expand(point)
Points == {<<-4, 0, 6>>, <<6, 0, -4>>, <<0, 6, 0>>}

builderVars ==
  <<triangles, nodes, primitiveIndices, primInfo, stack, pc, lastOp, builtCount, edits>>

AabbInit ==
  /\ triangles = << >>
  /\ nodes = << >>
  /\ primitiveIndices = << >>
  /\ primInfo = << >>
  /\ stack = << >>
  /\ pc = "idle"
  /\ lastOp = "none"
  /\ builtCount = 0
  /\ edits = 0
  /\ NoApp
  /\ aabb = [k \in BoxNames |-> EmptyAABB]
  /\ aabbLog = [expanded |-> [k \in BoxNames |-> FALSE],
                last |-> [op |-> "AABB", self |-> "a", before |-> EmptyAABB,
                          arg |-> EmptyAABB]]

\* AABB(): the default constructor, line 14
Construct(k) ==
  /\ aabb' = [aabb EXCEPT ![k] = EmptyAABB]
  /\ aabbLog' = [expanded |-> [aabbLog.expanded EXCEPT ![k] = FALSE],
                 last |-> [op |-> "AABB", self |-> k, before |-> aabb[k],
                           arg |-> EmptyAABB]]
  /\ UNCHANGED <<builderVars, appVars>>

\* expand(const glm::vec3&), lines 17-20
ExpandByPoint(k, p) ==
  /\ aabb' = [aabb EXCEPT ![k] = expandPoint(aabb[k], p)]
  /\ aabbLog' = [expanded |-> [aabbLog.expanded EXCEPT ![k] = TRUE],
                 last |-> [op |-> "expandPoint", self |-> k, before |-> aabb[k],
                           arg |-> p]]
  /\ UNCHANGED <<builderVars, appVars>>

\* expand(const AABB&), lines 22-25: box k is expanded by box j
ExpandByBox(k, j) ==
  /\ aabb' = [aabb EXCEPT ![k] = expandBox(aabb[k], aabb[j])]
  /\ aabbLog' = [expanded |-> [aabbLog.expanded EXCEPT
                                 ![k] = aabbLog.expanded[k] \/ aabbLog.expanded[j]],
                 last |-> [op |-> "expandBox", self |-> k, before |-> aabb[k],
                           arg |-> aabb[j]]]
  /\ UNCHANGED <<builderVars, appVars>>

AabbNext ==
  \/ \E k \in BoxNames : Construct(k)
  \/ \E k \in BoxNames : \E p \in Points : ExpandByPoint(k, p)
  \/ \E k \in BoxNames : \E j \in BoxNames \ {k} : ExpandByBox(k, j)

AabbSpec == AabbInit /\ [][AabbNext]_vars

\* C22: a default-constructed AABB is an identity for expand(AABB) on both
\* sides: B.expand(empty) leaves B as it was and empty.expand(B) gives B;
\* and a box that has received at least one point has min <= max on every
\* axis.
C22_EmptyBoxIsMergeIdentity ==
  /\ aabbLog.last.op = "expandBox" =>
       /\ aabbLog.last.arg = EmptyAABB => aabb[aabbLog.last.self] = aabbLog.last.before
       /\ aabbLog.last.before = EmptyAABB => aabb[aabbLog.last.self] = aabbLog.last.arg
  /\ \A k \in BoxNames :
       aabbLog.expanded[k] =>
         \A ax \in Axes : aabb[k].min[ax] <= aabb[k].max[ax]

\* the empty box "a" has just been expanded by a box "b" that spans two
\* points, after "b" had been expanded by the empty "a"
C22_Witness ==
  /\ aabbLog.last.op = "expandBox"
  /\ aabbLog.last.self = "a"
  /\ aabbLog.last.before = EmptyAABB
  /\ aabbLog.last.arg # EmptyAABB
  /\ aabb["a"] = aabb["b"]
  /\ aabb["a"].min # aabb["a"].max

====
